---------------------------- MODULE Spec2Model ----------------------------
(***************************************************************************)
(* Model of core/field_colour.js (Blockly.FieldColour): a colour field on  *)
(* a block, its HSV editor panel with three sliders and an optional        *)
(* eyedropper, the change events it fires and the listeners it registers.  *)
(*                                                                         *)
(* A colour string is a sequence of one-character strings, so that the     *)
(* regular expression of getText and the hex parsing / formatting of       *)
(* goog.color are computed character by character.  Real numbers (hue,     *)
(* saturation, brightness) are exact fractions <<numerator, denominator>>. *)
(***************************************************************************)
EXTENDS Integers, Sequences, FiniteSets, TLC

(***************************************************************************)
(* Bounds of the exploration.                                              *)
(***************************************************************************)
MaxOpens == 2

\* null / undefined, for each kind of value
NullColour == <<>>
NoSlider == 0
NoKey == 0
NoReadout == -1

(***************************************************************************)
(* Exact fractions.                                                        *)
(***************************************************************************)
RECURSIVE Gcd(_, _)
Gcd(a, b) == IF b = 0 THEN a ELSE Gcd(b, a % b)

Abs(n) == IF n < 0 THEN -n ELSE n

Rat(n, d) ==
  LET g == Gcd(Abs(n), d) IN IF n = 0 THEN <<0, 1>> ELSE <<n \div g, d \div g>>

Floor(q) == q[1] \div q[2]

(***************************************************************************)
(* Hexadecimal digits and colour strings.                                  *)
(***************************************************************************)
HexDigits == <<"0", "1", "2", "3", "4", "5", "6", "7",
               "8", "9", "a", "b", "c", "d", "e", "f">>

UpperDigits == <<"0", "1", "2", "3", "4", "5", "6", "7",
                 "8", "9", "A", "B", "C", "D", "E", "F">>

IsHexChar(ch) == \E i \in 1..16 : HexDigits[i] = ch \/ UpperDigits[i] = ch

HexVal(ch) == (CHOOSE i \in 1..16 : HexDigits[i] = ch \/ UpperDigits[i] = ch) - 1

ToLower(ch) == HexDigits[HexVal(ch) + 1]

\* goog.color.isValidHexColor_: /^#(?:[0-9a-f]{3}){1,2}$/i
isValidHexColor_(str) ==
  /\ Len(str) \in {4, 7}
  /\ str[1] = "#"
  /\ \A i \in 2..Len(str) : IsHexChar(str[i])

\* goog.color.normalizeHex: expands #rgb to #rrggbb and lower-cases.
normalizeHex(hexColor) ==
  IF Len(hexColor) = 4
    THEN <<"#", ToLower(hexColor[2]), ToLower(hexColor[2]),
                ToLower(hexColor[3]), ToLower(hexColor[3]),
                ToLower(hexColor[4]), ToLower(hexColor[4])>>
    ELSE <<"#">> \o [i \in 1..6 |-> ToLower(hexColor[i + 1])]

\* goog.color.hexToRgb: parseInt of each pair of digits.
hexToRgb(hexColor) ==
  LET h == normalizeHex(hexColor) IN
  << 16 * HexVal(h[2]) + HexVal(h[3]),
     16 * HexVal(h[4]) + HexVal(h[5]),
     16 * HexVal(h[6]) + HexVal(h[7]) >>

\* goog.color.rgbToHex / rgbArrayToHex: two lower-case digits per channel.
rgbArrayToHex(rgb) ==
  <<"#", HexDigits[(rgb[1] \div 16) + 1], HexDigits[(rgb[1] % 16) + 1],
         HexDigits[(rgb[2] \div 16) + 1], HexDigits[(rgb[2] % 16) + 1],
         HexDigits[(rgb[3] \div 16) + 1], HexDigits[(rgb[3] % 16) + 1]>>

Max2(a, b) == IF a > b THEN a ELSE b
Min2(a, b) == IF a < b THEN a ELSE b

\* goog.color.rgbToHsv: <<hue in degrees, saturation in 0..1, value in 0..255>>.
rgbToHsv(red, green, blue) ==
  LET max == Max2(Max2(red, green), blue)
      min == Min2(Min2(red, green), blue)
      delta == max - min
      \* hue / 60 as a fraction over delta, before the wrap-around
      sixth == IF red = max THEN green - blue
               ELSE IF green = max THEN 2 * delta + (blue - red)
               ELSE 4 * delta + (red - green)
      wrapped == IF sixth < 0 THEN sixth + 6 * delta ELSE sixth
  IN IF min = max
       THEN << <<0, 1>>, <<0, 1>>, <<max, 1>> >>
       ELSE << Rat(60 * wrapped, delta), Rat(delta, max), <<max, 1>> >>

hexToHsv(hex) ==
  LET rgb == hexToRgb(hex) IN rgbToHsv(rgb[1], rgb[2], rgb[3])

\* goog.color.hsvToRgb, each channel floored.
hsvToRgb(h, s, brightness) ==
  LET sextant == h[1] \div (60 * h[2])
      remainder == Rat(h[1] - 60 * h[2] * sextant, 60 * h[2])
      rn == remainder[1]
      rd == remainder[2]
      b == Floor(brightness)
      val1 == (brightness[1] * (s[2] - s[1])) \div (brightness[2] * s[2])
      val2 == (brightness[1] * (s[2] * rd - s[1] * rn))
                \div (brightness[2] * s[2] * rd)
      val3 == (brightness[1] * (s[2] * rd - s[1] * (rd - rn)))
                \div (brightness[2] * s[2] * rd)
  IN IF s[1] = 0 THEN <<b, b, b>>
     ELSE CASE sextant = 1 -> <<val2, b, val1>>
            [] sextant = 2 -> <<val1, b, val3>>
            [] sextant = 3 -> <<val1, val2, b>>
            [] sextant = 4 -> <<val3, val1, b>>
            [] sextant = 5 -> <<b, val1, val2>>
            [] sextant \in {0, 6} -> <<b, val3, val1>>
            [] OTHER       -> <<0, 0, 0>>

hsvToHex(hue, sat, val) == rgbArrayToHex(hsvToRgb(hue, sat, val))

(***************************************************************************)
(* Colours.                                                                *)
(***************************************************************************)
Red == <<"#", "f", "f", "0", "0", "0", "0">>
Green == <<"#", "0", "0", "f", "f", "0", "0">>
Blue == <<"#", "0", "0", "0", "0", "f", "f">>
ShortWhite == <<"#", "f", "f", "f">>
Grey == <<"#", "8", "0", "8", "0", "8", "0">>

\* colours the field is constructed with
InitColours == {Red, Grey}
\* colours the host passes to setValue
HostColours == {Green, ShortWhite}
\* colours the eyedropper delivers
PickedColours == {Blue}
\* the colour an overriding validator answers with
OverrideColour == Green
\* positions of the three sliders: hue in [0, 359], saturation in
\* [0.01, 0.99] (as thousandths), brightness in [5, 255].  For these positions
\* and every colour reachable with them, the floors of the exact fractions
\* below are the floors goog.color computes in double precision.
HueValues == {0, 120, 240}
SaturationValues == {500}
BrightnessValues == {128}

\* the block's colours before the field is installed on it
BlockDefault == [primary |-> Grey, secondary |-> Grey, tertiary |-> Grey]

FieldName == "COLOUR"
Validators == {"none", "undefined", "null", "override"}

\* '#rrggbb': the format setValue and getValue document
IsRrggbb(str) ==
  /\ Len(str) = 7
  /\ str[1] = "#"
  /\ \A i \in 2..7 : IsHexChar(str[i])

VARIABLES
  colour_,             \* this.colour_
  validator_,          \* the validator the field was constructed with
  sourceBlock_,        \* TRUE when the field is installed on the block
  block,               \* the block's primary / secondary / tertiary colour
  eventsEnabled,       \* Blockly.Events.isEnabled()
  activateEyedropper,  \* TRUE when Blockly.FieldColour.activateEyedropper is set
  hueSlider_, saturationSlider_, brightnessSlider_,
  background,          \* the 'background' style of each slider's element
  hueReadout_, saturationReadout_, brightnessReadout_,
  hueChangeEventKey_, saturationChangeEventKey_, brightnessChangeEventKey_,
  eyedropperEventData_,
  listeners,           \* the listener handles that are registered
  registered,          \* number of handles registered so far
  unregistered,        \* number of handles unregistered so far
  visible,             \* the drop-down panel is shown
  group,               \* Blockly.Events' group of the events of one gesture
  opens,               \* number of times the panel was opened
  pendingPick,         \* the eyedropper holds the completion callback
  lastOp,              \* the last operation and its argument
  setCalls,            \* the setValue calls of the last operation
  fired,               \* the events fired by the last operation
  validated,           \* the candidates given to the validator by the last operation
  ret                  \* what the last operation returned

sliderVars == <<hueSlider_, saturationSlider_, brightnessSlider_>>
readoutVars == <<hueReadout_, saturationReadout_, brightnessReadout_>>
keyVars == <<hueChangeEventKey_, saturationChangeEventKey_,
             brightnessChangeEventKey_, eyedropperEventData_>>
listenVars == <<listeners, registered, unregistered>>
histVars == <<lastOp, setCalls, fired, validated, ret>>

vars == <<colour_, validator_, sourceBlock_, block, eventsEnabled,
          activateEyedropper, sliderVars, background, readoutVars, keyVars,
          listenVars, visible, group, opens, pendingPick, histVars>>

NoBackground == [type \in {"hue", "saturation", "brightness"} |-> NullColour]

Init ==
  /\ colour_ \in InitColours
  /\ validator_ \in Validators
  /\ sourceBlock_ = FALSE
  /\ block = BlockDefault
  /\ eventsEnabled = TRUE
  /\ activateEyedropper = FALSE
  /\ hueSlider_ = NoSlider
  /\ saturationSlider_ = NoSlider
  /\ brightnessSlider_ = NoSlider
  /\ background = NoBackground
  /\ hueReadout_ = NoReadout
  /\ saturationReadout_ = NoReadout
  /\ brightnessReadout_ = NoReadout
  /\ hueChangeEventKey_ = NoKey
  /\ saturationChangeEventKey_ = NoKey
  /\ brightnessChangeEventKey_ = NoKey
  /\ eyedropperEventData_ = NoKey
  /\ listeners = {}
  /\ registered = 0
  /\ unregistered = 0
  /\ visible = FALSE
  /\ group = FALSE
  /\ opens = 0
  /\ pendingPick = FALSE
  /\ lastOp = [op |-> "construct", arg |-> colour_, old |-> NullColour,
               candidate |-> NullColour]
  /\ setCalls = <<>>
  /\ fired = <<>>
  /\ validated = <<>>
  /\ ret = NullColour

(***************************************************************************)
(* The collaborators of the field: the validator, the block, the events.   *)
(***************************************************************************)

\* Blockly.Field.prototype.callValidator: the validator's answer replaces the
\* text, unless it is undefined (the text stands) or null (the result is null).
callValidator(text) ==
  CASE validator_ = "null" -> NullColour
    [] validator_ = "override" -> OverrideColour
    [] OTHER -> text

\* Blockly.Block.prototype.setColour(colour, colourSecondary, colourTertiary)
setColour(colour, colourSecondary, colourTertiary) ==
  [primary |-> colour, secondary |-> colourSecondary,
   tertiary |-> colourTertiary]

\* Blockly.Block.prototype.getColourTertiary
getColourTertiary == block.tertiary

\* new Blockly.Events.BlockChange(block, 'field', name, oldValue, newValue)
BlockChange(element, name, oldValue, newValue) ==
  [block |-> "block", element |-> element, name |-> name,
   oldValue |-> oldValue, newValue |-> newValue]

(***************************************************************************)
(* getValue, getText and the parts of setValue.                            *)
(***************************************************************************)
\* getValue answering with the block's colour instead of the field's
getValueOfBlock == block.primary

getValue == colour_

\* getText whose pattern lacks the last back-reference: /^#(.)\1(.)\2(.).$/
getTextTwoPairs(colour) ==
  IF /\ Len(colour) = 7
     /\ colour[1] = "#"
     /\ colour[3] = colour[2]
     /\ colour[5] = colour[4]
    THEN <<"#", colour[2], colour[4], colour[6]>>
    ELSE colour

\* /^#(.)\1(.)\2(.)\3$/ : '#' and three pairs of equal characters
getText(colour) ==
  IF /\ Len(colour) = 7
     /\ colour[1] = "#"
     /\ colour[3] = colour[2]
     /\ colour[5] = colour[4]
     /\ colour[7] = colour[6]
    THEN <<"#", colour[2], colour[4], colour[6]>>
    ELSE colour

\* setValue firing without comparing the old colour with the new one
FireChangeAlways(attached, enabled, old, colour) == attached /\ enabled

\* the condition under which setValue fires a change event
FireChange(attached, enabled, old, colour) ==
  attached /\ enabled /\ old # colour

\* the colours setValue gives the block
BlockColours(colour) == setColour(colour, colour, getColourTertiary)

\* makeHueGradient(colour, type): the 361 stops are a function of the colour
\* and the type of the sweep, which is what the model keeps of the string
makeHueGradient(colour, type) == <<type, colour>>

hueReadoutText(hsv) == Floor(Rat(100 * hsv[1][1], 360 * hsv[1][2]))

saturationReadoutText(hsv) == Floor(Rat(100 * hsv[2][1], hsv[2][2]))

\* the brightness readout scaled by 360, as the hue readout is
brightnessReadoutOf360(hsv) == Floor(Rat(100 * hsv[3][1], 360 * hsv[3][2]))

brightnessReadoutText(hsv) == Floor(Rat(100 * hsv[3][1], 255 * hsv[3][2]))

\* setValue(colour), called in a state where the field is attached or not and
\* has sliders or not (init and showEditor_ set these before they call it)
setValue(colour, attached, hasSlider) ==
  /\ fired' = IF FireChange(attached, eventsEnabled, colour_, colour)
                THEN <<BlockChange("field", FieldName, colour_, colour)>>
                ELSE <<>>
  /\ colour_' = colour
  /\ block' = IF attached THEN BlockColours(colour) ELSE block
  /\ IF hasSlider
       THEN LET hsv == hexToHsv(colour) IN
            /\ background' = [type \in {"hue", "saturation", "brightness"} |->
                                makeHueGradient(colour, type)]
            /\ hueReadout_' = hueReadoutText(hsv)
            /\ saturationReadout_' = saturationReadoutText(hsv)
            /\ brightnessReadout_' = brightnessReadoutText(hsv)
       ELSE UNCHANGED <<background, readoutVars>>
  /\ setCalls' = <<[colour |-> colour, old |-> colour_, attached |-> attached,
                    enabled |-> eventsEnabled, refreshed |-> hasSlider]>>

noSetValue ==
  /\ fired' = <<>>
  /\ setCalls' = <<>>
  /\ UNCHANGED <<colour_, block, background, readoutVars>>

\* the record of the operation
step(op, arg) ==
  lastOp' = [op |-> op, arg |-> arg, old |-> colour_, candidate |-> NullColour]

(***************************************************************************)
(* The operations of the field.                                            *)
(***************************************************************************)

\* init(block): Blockly.Field.init binds the block, then the value is re-applied
FieldInit ==
  /\ sourceBlock_' = TRUE
  /\ setValue(getValue, TRUE, hueSlider_ # NoSlider)
  /\ step("init", NullColour)
  /\ validated' = <<>>
  /\ ret' = NullColour
  /\ UNCHANGED <<validator_, eventsEnabled, activateEyedropper, sliderVars,
                 keyVars, listenVars, visible, group, opens, pendingPick>>

\* setValue(colour) called by the host
SetValue(colour) ==
  /\ setValue(colour, sourceBlock_, hueSlider_ # NoSlider)
  /\ step("setValue", colour)
  /\ validated' = <<>>
  /\ ret' = NullColour
  /\ UNCHANGED <<validator_, sourceBlock_, eventsEnabled, activateEyedropper,
                 sliderVars, keyVars, listenVars, visible, group, opens, pendingPick>>

GetValue ==
  /\ ret' = getValue
  /\ step("getValue", NullColour)
  /\ noSetValue
  /\ validated' = <<>>
  /\ UNCHANGED <<validator_, sourceBlock_, eventsEnabled, activateEyedropper,
                 sliderVars, keyVars, listenVars, visible, group, opens, pendingPick>>

GetText ==
  /\ ret' = getText(colour_)
  /\ step("getText", NullColour)
  /\ noSetValue
  /\ validated' = <<>>
  /\ UNCHANGED <<validator_, sourceBlock_, eventsEnabled, activateEyedropper,
                 sliderVars, keyVars, listenVars, visible, group, opens, pendingPick>>

\* goog.events.listen / Blockly.bindEventWithChecks_: a fresh handle
newKey(session, n) == 4 * (session - 1) + n

\* showEditor_(): builds the three sliders and their readouts, registers the
\* listeners, shows the panel by the block and refreshes it through setValue.
\* It dereferences this.sourceBlock_.parentBlock_ (line 306), so it runs to its
\* end only on an attached field, and a panel that is open is closed before it
\* is opened again.  The positions of the sliders belong to the slider widgets:
\* every CHANGE event they dispatch, for a user's drag as for animatedSetValue,
\* is a step of HueChange, SaturationChange or BrightnessChange.  A key of the
\* eyedropper that an earlier panel left behind stays when the hook is unset.
ShowEditor ==
  /\ sourceBlock_
  /\ ~visible
  /\ opens < MaxOpens
  /\ opens' = opens + 1
  /\ hueSlider_' = opens'
  /\ saturationSlider_' = opens'
  /\ brightnessSlider_' = opens'
  /\ hueChangeEventKey_' = newKey(opens', 1)
  /\ saturationChangeEventKey_' = newKey(opens', 2)
  /\ eyedropperEventData_' = IF activateEyedropper THEN newKey(opens', 3)
                             ELSE eyedropperEventData_
  /\ brightnessChangeEventKey_' = newKey(opens', 4)
  /\ listeners' = listeners \cup
                    {newKey(opens', 1), newKey(opens', 2), newKey(opens', 4)} \cup
                    (IF activateEyedropper THEN {newKey(opens', 3)} ELSE {})
  /\ registered' = registered + (IF activateEyedropper THEN 4 ELSE 3)
  /\ visible' = TRUE
  /\ setValue(getValue, sourceBlock_, TRUE)
  /\ step("showEditor", NullColour)
  /\ validated' = <<>>
  /\ ret' = NullColour
  /\ UNCHANGED <<validator_, sourceBlock_, eventsEnabled, activateEyedropper,
                 unregistered, group, pendingPick>>

\* the hue handler committing the compacted text of the colour it computes
hueCandidateShort(hue, hsv) == getText(hsvToHex(hue, hsv[2], hsv[3]))

\* the colour a slider's change handler computes from the slider's value
hueCandidate(hue, hsv) == hsvToHex(hue, hsv[2], hsv[3])

saturationCandidate(saturation, hsv) == hsvToHex(hsv[1], saturation, hsv[3])

brightnessCandidate(brightness, hsv) == hsvToHex(hsv[1], hsv[2], brightness)

\* the handler calling the validator and dropping its answer
unvalidatedColour(attached, colour) == colour

\* "Call any validation function, and allow it to override."
validatedColour(attached, colour) ==
  IF attached THEN callValidator(colour) ELSE colour

\* the part the three change handlers share, from the computed colour on
sliderChange(op, arg, candidate) ==
  LET colour == validatedColour(sourceBlock_, candidate) IN
  /\ validated' = IF sourceBlock_ /\ validator_ # "none"
                    THEN <<candidate>> ELSE <<>>
  /\ IF colour # NullColour
       THEN setValue(colour, sourceBlock_, hueSlider_ # NoSlider)
       ELSE noSetValue
  /\ lastOp' = [op |-> op, arg |-> <<arg>>, old |-> colour_,
                candidate |-> candidate]
  /\ ret' = NullColour
  /\ UNCHANGED <<validator_, sourceBlock_, eventsEnabled, activateEyedropper,
                 sliderVars, keyVars, listenVars, visible, group, opens, pendingPick>>

\* the CHANGE listener of the hue slider
HueChange(hue) ==
  /\ hueChangeEventKey_ \in listeners
  /\ sliderChange("hueChange", hue,
                  hueCandidate(<<hue, 1>>, hexToHsv(getValue)))

\* the CHANGE listener of the saturation slider (thousandths)
SaturationChange(saturation) ==
  /\ saturationChangeEventKey_ \in listeners
  /\ sliderChange("saturationChange", saturation,
                  saturationCandidate(Rat(saturation, 1000), hexToHsv(getValue)))

\* the CHANGE listener of the brightness slider
BrightnessChange(brightness) ==
  /\ brightnessChangeEventKey_ \in listeners
  /\ sliderChange("brightnessChange", brightness,
                  brightnessCandidate(<<brightness, 1>>, hexToHsv(getValue)))

\* activateEyedropperInternal_(): the mousedown listener of the eyedropper
\* button hands the hook a callback that sets the field's value
ActivateEyedropperInternal ==
  /\ eyedropperEventData_ \in listeners
  /\ activateEyedropper
  /\ pendingPick' = TRUE
  /\ step("activateEyedropper", NullColour)
  /\ noSetValue
  /\ validated' = <<>>
  /\ ret' = NullColour
  /\ UNCHANGED <<validator_, sourceBlock_, eventsEnabled, activateEyedropper,
                 sliderVars, keyVars, listenVars, visible, group, opens>>

\* the callback given to the eyedropper: function(value) { setValue(value) }
EyedropperPicked(value) ==
  /\ pendingPick
  /\ pendingPick' = FALSE
  /\ setValue(value, sourceBlock_, hueSlider_ # NoSlider)
  /\ step("eyedropperPicked", value)
  /\ validated' = <<>>
  /\ ret' = NullColour
  /\ UNCHANGED <<validator_, sourceBlock_, eventsEnabled, activateEyedropper,
                 sliderVars, keyVars, listenVars, visible, group, opens>>

\* widgetDispose_ without the unbinding of the eyedropper's listener
liveSliderKeys ==
  {k \in {hueChangeEventKey_, saturationChangeEventKey_,
          brightnessChangeEventKey_} :
     k # NoKey /\ k \in listeners}

\* the handles among the four static keys that are still registered:
\* goog.events.unlistenByKey and Blockly.unbindEvent_ remove a handle once
liveKeys ==
  {k \in {hueChangeEventKey_, saturationChangeEventKey_,
          brightnessChangeEventKey_, eyedropperEventData_} :
     k # NoKey /\ k \in listeners}

\* widgetDispose_(): run when the panel is hidden
WidgetDispose ==
  /\ listeners' = listeners \ liveKeys
  /\ unregistered' = unregistered + Cardinality(liveKeys)
  /\ visible' = FALSE
  /\ group' = FALSE
  /\ step("widgetDispose", NullColour)
  /\ noSetValue
  /\ validated' = <<>>
  /\ ret' = NullColour
  /\ UNCHANGED <<validator_, sourceBlock_, eventsEnabled, activateEyedropper,
                 sliderVars, keyVars, registered, opens, pendingPick>>

(***************************************************************************)
(* The host: the eyedropper hook and the global switch of the events.      *)
(***************************************************************************)
SetActivateEyedropper(hook) ==
  /\ activateEyedropper # hook
  /\ activateEyedropper' = hook
  /\ step("setActivateEyedropper", NullColour)
  /\ noSetValue
  /\ validated' = <<>>
  /\ ret' = NullColour
  /\ UNCHANGED <<validator_, sourceBlock_, eventsEnabled, sliderVars,
                 keyVars, listenVars, visible, group, opens, pendingPick>>

\* Blockly.Events.disable() / enable()
SetEventsEnabled(enabled) ==
  /\ eventsEnabled # enabled
  /\ eventsEnabled' = enabled
  /\ step("setEventsEnabled", NullColour)
  /\ noSetValue
  /\ validated' = <<>>
  /\ ret' = NullColour
  /\ UNCHANGED <<validator_, sourceBlock_, activateEyedropper, sliderVars,
                 keyVars, listenVars, visible, group, opens, pendingPick>>

\* Blockly.Events.setGroup(true): the host groups the events of a gesture
\* on the open panel
SetGroup ==
  /\ visible
  /\ ~group
  /\ group' = TRUE
  /\ step("setGroup", NullColour)
  /\ noSetValue
  /\ validated' = <<>>
  /\ ret' = NullColour
  /\ UNCHANGED <<validator_, sourceBlock_, eventsEnabled, activateEyedropper,
                 sliderVars, keyVars, listenVars, visible, opens, pendingPick>>

Next ==
  \/ FieldInit
  \/ \E colour \in HostColours : SetValue(colour)
  \/ GetValue
  \/ GetText
  \/ ShowEditor
  \/ \E hue \in HueValues : HueChange(hue)
  \/ \E saturation \in SaturationValues : SaturationChange(saturation)
  \/ \E brightness \in BrightnessValues : BrightnessChange(brightness)
  \/ ActivateEyedropperInternal
  \/ \E value \in PickedColours : EyedropperPicked(value)
  \/ WidgetDispose
  \/ \E hook \in BOOLEAN : SetActivateEyedropper(hook)
  \/ \E enabled \in BOOLEAN : SetEventsEnabled(enabled)
  \/ SetGroup

Spec == Init /\ [][Next]_vars

(***************************************************************************)
(* The properties of the field.                                            *)
(***************************************************************************)
SliderOps == {"hueChange", "saturationChange", "brightnessChange"}

\* the colours given to the field from outside: to the constructor, to
\* setValue by the host, by the validator and by the eyedropper
SuppliedColours ==
  InitColours \cup HostColours \cup PickedColours \cup {OverrideColour}

Max3(rgb) == Max2(Max2(rgb[1], rgb[2]), rgb[3])

\* C1: after setValue(c), attached or not, panel open or not, events enabled
\* or not, getValue() is c; getValue returns the stored colour and changes
\* nothing.
C1_SetThenGet ==
  /\ [](/\ lastOp.op = "setValue" => getValue = lastOp.arg
        /\ lastOp.op = "getValue" => ret = colour_ /\ colour_ = lastOp.old)
  /\ [][lastOp'.op = "getValue" =>
          UNCHANGED <<colour_, validator_, sourceBlock_, block, eventsEnabled,
                      activateEyedropper, sliderVars, background, readoutVars,
                      keyVars, listenVars, visible, group, opens,
                      pendingPick>>]_vars

\* a getValue() that returns the 3-digit colour the host has just set on an
\* attached field with the panel open
C1_Witness ==
  /\ lastOp.op = "getValue"
  /\ ret = ShortWhite
  /\ sourceBlock_
  /\ visible

\* C2: a setValue call fires exactly one BlockChange(block, 'field', name, old,
\* new) when the field is attached, events are enabled and the colour differs,
\* and nothing otherwise; init fires nothing; two setValue(c) in a row fire at
\* most one event together.
C2_ChangeEvent ==
  /\ [](/\ setCalls = <<>> => fired = <<>>
        /\ setCalls # <<>> =>
             fired = IF /\ setCalls[1].attached
                        /\ setCalls[1].enabled
                        /\ setCalls[1].old # setCalls[1].colour
                       THEN <<[block |-> "block", element |-> "field",
                               name |-> FieldName,
                               oldValue |-> setCalls[1].old,
                               newValue |-> setCalls[1].colour]>>
                       ELSE <<>>
        /\ lastOp.op = "init" => fired = <<>>)
  /\ [][(/\ lastOp.op = "setValue"
         /\ lastOp'.op = "setValue"
         /\ lastOp'.arg = lastOp.arg) => Len(fired) + Len(fired') <= 1]_vars

\* a host setValue that fired its event
C2_Witness ==
  /\ lastOp.op = "setValue"
  /\ Len(fired) = 1
  /\ fired[1].oldValue = Red
  /\ fired[1].newValue = Green

\* C3: with a validator installed, a slider's change handler commits what the
\* validator answers for the candidate: null commits nothing and leaves the
\* colour, undefined commits the candidate, a string commits that string.
C3_ValidatorAnswer ==
  (lastOp.op \in SliderOps /\ validator_ # "none") =>
     /\ validated = <<lastOp.candidate>>
     /\ validator_ = "null" => setCalls = <<>> /\ colour_ = lastOp.old
     /\ validator_ = "undefined" =>
          /\ Len(setCalls) = 1
          /\ setCalls[1].colour = lastOp.candidate
          /\ colour_ = lastOp.candidate
     /\ validator_ = "override" =>
          /\ Len(setCalls) = 1
          /\ setCalls[1].colour = OverrideColour
          /\ colour_ = OverrideColour

\* a hue change whose candidate differs from the stored colour and is rejected
C3_Witness ==
  /\ lastOp.op = "hueChange"
  /\ validator_ = "null"
  /\ lastOp.candidate # colour_
  /\ colour_ = lastOp.old

\* C4: when the panel is closed no listener is registered, and as many handles
\* were unregistered as were registered.
C4_NoListenerLeft ==
  ~visible => listeners = {} /\ registered = unregistered

\* closed after two cycles, one with the eyedropper hook set and one without
C4_Witness ==
  /\ ~visible
  /\ lastOp.op = "widgetDispose"
  /\ opens = 2
  /\ registered = 7
  /\ ~activateEyedropper

\* C5: getText returns #rgb exactly when the stored #rrggbb has two equal
\* digits in each channel, and the stored colour otherwise; it leaves the
\* stored colour alone.
C5_GetText ==
  (lastOp.op = "getText" /\ IsRrggbb(colour_)) =>
     /\ colour_ = lastOp.old
     /\ IF \A i \in {2, 4, 6} : colour_[i] = colour_[i + 1]
          THEN /\ Len(ret) = 4
               /\ ret[1] = "#"
               /\ \A i \in 1..3 : ret[i + 1] = colour_[2 * i]
          ELSE ret = colour_

\* getText of a colour with two channels of equal digits and one without
C5_Witness ==
  /\ lastOp.op = "getText"
  /\ IsRrggbb(colour_)
  /\ colour_[2] = colour_[3]
  /\ colour_[4] = colour_[5]
  /\ colour_[6] # colour_[7]
  /\ ret = colour_

C7_ValidatorConsulted ==
  (/\ lastOp.op \in SliderOps \cup {"eyedropperPicked"}
   /\ validator_ # "none"
   /\ setCalls # <<>>) => validated # <<>>

\* C8: after setValue(c) on an attached field the block's three colours are c.
C8_ThreeSlots ==
  (setCalls # <<>> /\ setCalls[1].attached) =>
     /\ block.primary = setCalls[1].colour
     /\ block.secondary = setCalls[1].colour
     /\ block.tertiary = setCalls[1].colour

\* C9: while the panel is closed the field has no slider, no readout and no
\* listener handle, and a setValue refreshes nothing.
C9_TornDown ==
  ~visible =>
     /\ hueSlider_ = NoSlider
     /\ saturationSlider_ = NoSlider
     /\ brightnessSlider_ = NoSlider
     /\ hueReadout_ = NoReadout
     /\ saturationReadout_ = NoReadout
     /\ brightnessReadout_ = NoReadout
     /\ hueChangeEventKey_ = NoKey
     /\ saturationChangeEventKey_ = NoKey
     /\ brightnessChangeEventKey_ = NoKey
     /\ eyedropperEventData_ = NoKey
     /\ setCalls # <<>> => ~setCalls[1].refreshed

\* C10 as stated: while the panel is open the brightness readout is
\* floor(100 * V / 360) and the hue readout floor(100 * H / 360).
C10_BrightnessOf360 ==
  visible =>
     /\ brightnessReadout_ = (100 * Max3(hexToRgb(colour_))) \div 360
     /\ hueReadout_ = (100 * hexToHsv(colour_)[1][1])
                         \div (360 * hexToHsv(colour_)[1][2])

\* C10, amended: while the panel is open the brightness readout is
\* floor(100 * V / 255), in 0..100, and the hue readout floor(100 * H / 360).
C10_BrightnessOf255 ==
  visible =>
     /\ brightnessReadout_ = (100 * Max3(hexToRgb(colour_))) \div 255
     /\ brightnessReadout_ \in 0..100
     /\ hueReadout_ = (100 * hexToHsv(colour_)[1][1])
                         \div (360 * hexToHsv(colour_)[1][2])
     /\ hueReadout_ \in 0..99

\* a host setValue on the open panel, with a colour of full brightness and a
\* hue that is not 0
C10_Witness ==
  /\ visible
  /\ lastOp.op = "setValue"
  /\ setCalls[1].refreshed
  /\ brightnessReadout_ = 100
  /\ hueReadout_ = 33
=============================================================================
